---------------------------- MODULE Spec2Model ----------------------------
(***************************************************************************)
(* web3-wallet-utils: the Web3Wallet class (src/models/Web3Wallet.js) and  *)
(* the function modules src/src/getWallet.js and src/getWallet.js.         *)
(*                                                                         *)
(* A process uses one of the three modules (program).  An async function   *)
(* runs synchronously up to its next `await`; every such segment is one    *)
(* atomic step here, and the balance lookups in flight may complete in any *)
(* order.  process.exit(1) stops the process: no step is enabled after it. *)
(***************************************************************************)
EXTENDS Integers, Sequences, FiniteSets, TLC

VARIABLES
    program,          \* which module this process uses
    env,              \* process.env: the networks N for which ALCHEMY_<N>_KEY is set
    exited,           \* process.exit(1) was called
    logged,           \* console.log(err) was called by a catch block
    providers,        \* every provider object constructed so far (index = identity)
    cfgVersion,       \* history: number of configuration assignments / entry calls
    \* ---- Web3Wallet private fields
    mnemonic, network, rpcPort, balance, numberOfWallets, provider, bip44Wallet,
    runs,             \* invocations of Web3Wallet.getBIP44Wallet
    reads,            \* history: calls of printKeyPairs, getPrivateKeys, getKeyPairs
    \* ---- module-level state of getWallet.js
    NETWORK, MNEMONIC,
    calls,            \* invocations of getBIP44Wallet of getWallet.js
    lastGetProvider   \* the last direct call of the exported getProvider

vars == <<program, env, exited, logged, providers, cfgVersion,
          mnemonic, network, rpcPort, balance, numberOfWallets, provider,
          bip44Wallet, runs, reads, NETWORK, MNEMONIC, calls, lastGetProvider>>

walletVars == <<mnemonic, network, rpcPort, balance, numberOfWallets, provider,
                bip44Wallet, runs, reads>>

moduleVars == <<NETWORK, MNEMONIC, calls, lastGetProvider>>

-----------------------------------------------------------------------------
(* Bounds *)

\* calls made in one behaviour: the async runs started (the constructor's
\* included) and the reads of a Web3Wallet's result
MaxRuns == 2
\* largest numberOfWallets a caller passes
MaxWallets == 2

-----------------------------------------------------------------------------
(* JavaScript values *)

Undefined == [tag |-> "undefined", id |-> 0]
Null == [tag |-> "null", id |-> 0]
Obj(n) == [tag |-> "object", id |-> n]

\* !x for a value that is undefined, null or an object
Falsy(x) == x.tag \in {"undefined", "null"}

UndefinedKey == [tag |-> "undefined", val |-> ""]
StringKey(s) == [tag |-> "string", val |-> s]

\* String.prototype.toUpperCase on the network names of the model
ToUpperCase(s) ==
    CASE s = "rinkeby" -> "RINKEBY"
      [] s = "ganache_core" -> "GANACHE_CORE"
      [] OTHER -> s

\* String.prototype.toLowerCase
ToLowerCase(s) ==
    CASE s = "RINKEBY" -> "rinkeby"
      [] s = "KOVAN" -> "kovan"
      [] s = "GANACHE" -> "ganache"
      [] s = "GANACHE_CORE" -> "ganache_core"
      [] s = "Test Junk" -> "test junk"
      [] OTHER -> s

\* faulty variant of EnvKey: the lookup falls back to an empty string
EnvKeyOrEmpty(net) == IF net \in env THEN StringKey(net) ELSE StringKey("")

\* process.env[`ALCHEMY_${net}_KEY`]: the variable's name keeps net's letter case
EnvKey(net) == IF net \in env THEN StringKey(net) ELSE UndefinedKey

\* ---- arrays are compared by reference: every evaluation of a literal `[]`
\* ---- makes a new array
LiteralInComparison == "literal [] of the comparison"
LiteralDefault == "literal [] of the default parameter"
CallerArray == "array built by the caller"
Array(ref, elems) == [ref |-> ref, elems |-> elems]

\* addresses === []
StrictEqualsEmptyLiteral(addresses) == addresses.ref = LiteralInComparison

-----------------------------------------------------------------------------
(* The wallet/RPC library (ethers, ganache-core) *)

ValidMnemonics == {"test junk"}

\* Wallet.fromMnemonic throws on a phrase that is no BIP-39 mnemonic
FromMnemonicThrows(m) == m \notin ValidMnemonics

\* account.privateKey: "0x" followed by the hex digits of the key at (m, i)
PrivateKey(m, i) == [prefix0x |-> TRUE, m |-> m, index |-> i]

\* privateKey.substring(2)
Substring2(k) == [prefix0x |-> FALSE, m |-> k.m, index |-> k.index]

\* Buffer.from(address, 'hex'): stops at the first non-hex character, so a
\* key that still carries "0x" gives an empty buffer
BufferFromHex(k) == IF k.prefix0x THEN [empty |-> TRUE, m |-> "", index |-> 0]
                    ELSE [empty |-> FALSE, m |-> k.m, index |-> k.index]

\* utils.parseEther(s).toString(): ether (decimal string) to wei
ParseEtherThrows(s) == s \notin {"100", "1.50"}
ParseEther(s) ==
    CASE s = "100" -> "100000000000000000000"
      [] s = "1.50" -> "1500000000000000000"
      [] OTHER -> "NaN"

\* utils.formatEther(wei)
FormatEther(w) ==
    CASE w = "100000000000000000000" -> "100.0"
      [] w = "1500000000000000000" -> "1.5"
      [] OTHER -> "0.0"

\* parseFloat(s).toString()
ParseFloatToString(s) ==
    CASE s = "100.0" -> "100"
      [] s = "1.5" -> "1.5"
      [] OTHER -> "0"

NoAccount == [index |-> 0 - 1, mnemonic |-> "", provider |-> 0]

\* new Wallet(privateKey, provider): the account bound to a provider object
NewWallet(m, i, p) == [index |-> i, mnemonic |-> m, provider |-> p.id]

\* the kinds of provider objects
JsonRpcProvider(port, rid, ver) ==
    [kind |-> "JsonRpcProvider", url |-> port, accounts |-> <<>>,
     network |-> "", key |-> UndefinedKey, run |-> rid, version |-> ver]

Web3Provider(accounts, rid, ver) ==
    [kind |-> "Web3Provider", url |-> "", accounts |-> accounts,
     network |-> "", key |-> UndefinedKey, run |-> rid, version |-> ver]

\* AlchemyProvider throws on a network it does not host
AlchemyThrows(net) == net \notin {"rinkeby", "kovan"}

\* a key that is undefined makes ethers fall back to its shared default key
AlchemyProvider(net, key, rid, ver) ==
    [kind |-> "AlchemyProvider", url |-> "", accounts |-> <<>>,
     network |-> net, key |-> key, run |-> rid, version |-> ver]

\* the balance (in wei) getBalance reports for an account on the chain behind
\* provider p: on a simulated chain what the account was seeded with, and
\* nothing on the other chains
ChainBalances(p, acct) ==
    IF p.kind = "Web3Provider"
    THEN LET funded == {k \in 1..Len(p.accounts) :
                          p.accounts[k].secretKey =
                            BufferFromHex(Substring2(PrivateKey(acct.mnemonic, acct.index)))}
         IN  IF funded = {} THEN {"0"}
             ELSE {p.accounts[k].balance : k \in funded}
    ELSE {"0"}


-----------------------------------------------------------------------------
(* Web3Wallet (src/models/Web3Wallet.js) *)

Networks == {"GANACHE", "GANACHE_CORE", "RINKEBY", "rinkeby"}
Ports == {"7545", "8545"}
Balances == {"100", "1.50", "abc"}
Mnemonics == {"test junk", "not a phrase"}

\* the constructor's defaults for rpcPort and balance
RPC_PORT_GANACHE == "7545"
DefaultBalance == "100"

\* the Configuration held in the private fields
Cfg == [mnemonic |-> mnemonic, network |-> network, rpcPort |-> rpcPort,
        balance |-> balance, numberOfWallets |-> numberOfWallets]

\* the fields and process state a segment of getBIP44Wallet reads and writes
St == [provider |-> provider, bip44Wallet |-> bip44Wallet,
       providers |-> providers, exited |-> exited, logged |-> logged]

\* [wallet, balances]; `by` is history: the invocation that produced it
BipUndefined == [defined |-> FALSE, wallet |-> <<>>, balances |-> <<>>, by |-> 0]
Bip(w, b, rid) == [defined |-> TRUE, wallet |-> w, balances |-> b, by |-> rid]

\* no direct call of getProvider yet
NoCall == [called |-> FALSE, addresses |-> Array("", <<>>), network |-> "",
           current |-> "", threw |-> FALSE, result |-> Undefined]

\* the locals of a fresh invocation; startCfg (the Configuration it was
\* started under), startVersion and resolves (calls of #setProvider) are history
NewRun(cfg, ver) ==
    [pc |-> "start", i |-> 0, wallet |-> <<>>, balances |-> <<>>,
     account |-> NoAccount, startCfg |-> cfg, startVersion |-> ver, resolves |-> 0]

\* #getAlchemyApiKey
getAlchemyApiKey(cfg) == EnvKey(cfg.network)

\* #setProvider(addresses): [threw, provider, providers]
setProvider(cfg, st, addresses, rid, ver) ==
    LET made(p) == [threw |-> FALSE, provider |-> Obj(Len(st.providers) + 1),
                    providers |-> Append(st.providers, p)]
        up == ToUpperCase(cfg.network)
    IN  CASE up = "GANACHE" -> made(JsonRpcProvider(cfg.rpcPort, rid, ver))
          [] up = "GANACHE_CORE" ->
                IF StrictEqualsEmptyLiteral(addresses)
                THEN [threw |-> FALSE, provider |-> Null, providers |-> st.providers]
                ELSE IF addresses.elems # <<>> /\ ParseEtherThrows(cfg.balance)
                THEN [threw |-> TRUE, provider |-> st.provider, providers |-> st.providers]
                ELSE made(Web3Provider(
                        [k \in 1..Len(addresses.elems) |->
                            [secretKey |-> BufferFromHex(addresses.elems[k]),
                             balance |-> ParseEther(cfg.balance)]], rid, ver))
          [] OTHER ->
                IF AlchemyThrows(ToLowerCase(cfg.network))
                THEN [threw |-> TRUE, provider |-> st.provider, providers |-> st.providers]
                ELSE made(AlchemyProvider(ToLowerCase(cfg.network),
                                          getAlchemyApiKey(cfg), rid, ver))

\* faulty variant of NeedsProvider: every iteration resolves a provider
NeedsProviderAlways(p) == TRUE

\* if (!this.#provider)
NeedsProvider(p) == Falsy(p)

\* faulty variant of SeedAddresses: the key keeps its leading 0x
SeedAddressesWith0x(key) == Array(CallerArray, <<key>>)

\* [_account.privateKey.substring(2)]
SeedAddresses(key) == Array(CallerArray, <<Substring2(key)>>)

\* faulty variant of DiscardProvider: the setter keeps the cached provider
KeepProvider(st) == st

\* this.#provider = null, in every setter
DiscardProvider(st) == [st EXCEPT !.provider = Null]

\* faulty variant of WalletCatch: logs and returns, without process.exit(1)
WalletCatchNoExit(st, r) ==
    [st |-> [st EXCEPT !.logged = TRUE],
     run |-> [r EXCEPT !.pc = "failed"]]

\* catch (err) { console.log(err); process.exit(1); }
WalletCatch(st, r) ==
    [st |-> [st EXCEPT !.exited = TRUE, !.logged = TRUE],
     run |-> [r EXCEPT !.pc = "failed"]]

\* getBIP44Wallet from the loop test to the next await, or to its end
WalletLoopHead(cfg, st, r, rid, ver) ==
    IF ~(r.i < cfg.numberOfWallets)
    THEN [st |-> [st EXCEPT !.bip44Wallet = Bip(r.wallet, r.balances, rid)],
          run |-> [r EXCEPT !.pc = "done"]]
    ELSE IF FromMnemonicThrows(cfg.mnemonic) THEN WalletCatch(st, r)
    ELSE LET key == PrivateKey(cfg.mnemonic, r.i)
             sp == IF NeedsProvider(st.provider)
                   THEN setProvider(cfg, st, SeedAddresses(key), rid, ver)
                   ELSE [threw |-> FALSE, provider |-> st.provider,
                         providers |-> st.providers]
         IN  IF sp.threw THEN WalletCatch(st, r)
             ELSE [st |-> [st EXCEPT !.provider = sp.provider,
                                     !.providers = sp.providers],
                   run |-> [r EXCEPT !.pc = "await",
                                     !.account = NewWallet(cfg.mnemonic, r.i, sp.provider),
                                     !.resolves = IF NeedsProvider(st.provider)
                                                  THEN @ + 1 ELSE @]]

\* the continuation of `await _account.getBalance()` with the balance in wei
WalletAfterAwait(cfg, st, r, rid, ver, wei) ==
    WalletLoopHead(cfg, st,
        [r EXCEPT !.wallet = Append(@, r.account),
                  !.balances = Append(@, ParseFloatToString(FormatEther(wei))),
                  !.account = NoAccount,
                  !.i = @ + 1], rid, ver)

\* the fields a segment leaves behind
WalletWrites(out) ==
    /\ provider' = out.st.provider
    /\ bip44Wallet' = out.st.bip44Wallet
    /\ providers' = out.st.providers
    /\ exited' = out.st.exited
    /\ logged' = out.st.logged

\* a setter: the assignment, this.#provider = null, this.getBIP44Wallet()
Setter(cfg) ==
    LET ver == cfgVersion + 1
        out == WalletLoopHead(cfg, DiscardProvider(St), NewRun(cfg, ver),
                              Len(runs) + 1, ver)
    IN  /\ program = "Web3Wallet"
        /\ ~exited
        /\ Len(runs) + Len(reads) < MaxRuns
        /\ cfgVersion' = ver
        /\ WalletWrites(out)
        /\ runs' = Append(runs, out.run)
        /\ UNCHANGED <<program, env, mnemonic, reads, moduleVars>>

SetNetwork ==
    \E v \in Networks :
        /\ network' = v
        /\ UNCHANGED <<rpcPort, balance, numberOfWallets>>
        /\ Setter([Cfg EXCEPT !.network = v])

SetRpcPort ==
    \E v \in Ports :
        /\ rpcPort' = v
        /\ UNCHANGED <<network, balance, numberOfWallets>>
        /\ Setter([Cfg EXCEPT !.rpcPort = v])

SetBalance ==
    \E v \in Balances :
        /\ balance' = v
        /\ UNCHANGED <<network, rpcPort, numberOfWallets>>
        /\ Setter([Cfg EXCEPT !.balance = v])

SetNumberOfWallets ==
    \E v \in 0..MaxWallets :
        /\ numberOfWallets' = v
        /\ UNCHANGED <<network, rpcPort, balance>>
        /\ Setter([Cfg EXCEPT !.numberOfWallets = v])

\* a balance lookup of run k resolves
WalletBalanceResolves ==
    \E k \in 1..Len(runs) :
        /\ program = "Web3Wallet"
        /\ ~exited
        /\ runs[k].pc = "await"
        /\ runs[k].account.provider # 0
        /\ \E wei \in ChainBalances(providers[runs[k].account.provider], runs[k].account) :
             LET out == WalletAfterAwait(Cfg, St, runs[k], k, cfgVersion, wei)
             IN  /\ WalletWrites(out)
                 /\ runs' = [runs EXCEPT ![k] = out.run]
        /\ UNCHANGED <<program, env, cfgVersion, mnemonic, network, rpcPort, balance,
                       numberOfWallets, reads, moduleVars>>

\* a balance lookup of run k rejects (RPC failure, or no provider to ask)
WalletBalanceRejects ==
    \E k \in 1..Len(runs) :
        /\ program = "Web3Wallet"
        /\ ~exited
        /\ runs[k].pc = "await"
        /\ LET out == WalletCatch(St, runs[k])
           IN  /\ WalletWrites(out)
               /\ runs' = [runs EXCEPT ![k] = out.run]
        /\ UNCHANGED <<program, env, cfgVersion, mnemonic, network, rpcPort, balance,
                       numberOfWallets, reads, moduleVars>>

\* _account.address
Address(a) == [addressOf |-> a.mnemonic, index |-> a.index]

\* const [_wallets, _balances] = this.#bip44Wallet: a TypeError when the field
\* is still undefined
DestructureThrows(b) == ~b.defined

\* what a reader makes of the field: the addresses, balances and private keys
\* it prints or returns (keys with 0x for printKeyPairs, stripped otherwise),
\* or the TypeError (thrown by printKeyPairs, a rejected promise for the two
\* async readers)
ReadResult(op, b) ==
    IF DestructureThrows(b)
    THEN [op |-> op, threw |-> TRUE, addresses |-> <<>>, balances |-> <<>>,
          keys |-> <<>>]
    ELSE [op |-> op, threw |-> FALSE,
          addresses |-> IF op = "getPrivateKeys" THEN <<>>
                        ELSE [k \in 1..Len(b.wallet) |-> Address(b.wallet[k])],
          balances |-> IF op = "printKeyPairs" THEN b.balances ELSE <<>>,
          keys |-> [k \in 1..Len(b.wallet) |->
                      IF op = "printKeyPairs"
                      THEN PrivateKey(b.wallet[k].mnemonic, b.wallet[k].index)
                      ELSE Substring2(PrivateKey(b.wallet[k].mnemonic,
                                                 b.wallet[k].index))]]

\* a caller reads the result, at any time after the constructor returned
Reader(op) ==
    /\ program = "Web3Wallet"
    /\ ~exited
    /\ Len(runs) + Len(reads) < MaxRuns
    /\ reads' = Append(reads, ReadResult(op, bip44Wallet))
    /\ UNCHANGED <<program, env, exited, logged, providers, cfgVersion, mnemonic,
                   network, rpcPort, balance, numberOfWallets, provider,
                   bip44Wallet, runs, moduleVars>>

WalletPrintKeyPairs == Reader("printKeyPairs")

WalletGetPrivateKeys == Reader("getPrivateKeys")

WalletGetKeyPairs == Reader("getKeyPairs")

\* new Web3Wallet(walletParamsObj): the state the constructor returns in, with
\* rpcPort and balance left to their defaults and numberOfWallets passed
WalletInit ==
    \E m \in Mnemonics, net \in Networks, port \in {RPC_PORT_GANACHE},
       bal \in {DefaultBalance}, n \in 1..MaxWallets :
        LET cfg == [mnemonic |-> m, network |-> net, rpcPort |-> port,
                    balance |-> bal, numberOfWallets |-> n]
            st0 == [provider |-> Undefined, bip44Wallet |-> BipUndefined,
                    providers |-> <<>>, exited |-> FALSE, logged |-> FALSE]
            out == WalletLoopHead(cfg, st0, NewRun(cfg, 0), 1, 0)
        IN  /\ program = "Web3Wallet"
            /\ mnemonic = m /\ network = net /\ rpcPort = port
            /\ balance = bal /\ numberOfWallets = n
            /\ cfgVersion = 0
            /\ provider = out.st.provider
            /\ bip44Wallet = out.st.bip44Wallet
            /\ providers = out.st.providers
            /\ exited = out.st.exited
            /\ logged = out.st.logged
            /\ runs = <<out.run>>
            /\ reads = <<>>
            /\ NETWORK = "" /\ MNEMONIC = "" /\ calls = <<>>
            /\ lastGetProvider = NoCall

-----------------------------------------------------------------------------
(* getWallet.js: src/src/getWallet.js ("src/getWallet") and the older copy *)
(* src/getWallet.js ("getWallet"), of which getProvider and getBIP44Wallet *)
(* are modelled                                                            *)

ModulePrograms == {"src/getWallet", "getWallet"}

\* networks callers pass; Omitted stands for an argument left out
Omitted == "(omitted)"
\* (network, balance) pairs callers pass: the balance only matters to the
\* simulated chain
CallArgs == {<<"ganache_core", "100">>, <<"ganache_core", "1.50">>, <<"KOVAN", "100">>}
\* DEFAULT_NETWORK of ./config
DEFAULT_NETWORK == "GANACHE"
CallMnemonics == {"Test Junk", "not a phrase"}

\* ALCHEMY_API_KEY(): reads the module-level NETWORK
ALCHEMY_API_KEY(current) == EnvKey(current)

\* getProvider(addresses, network, balance), with `current` the module-level
\* NETWORK: [threw, provider, providers].  In src/getWallet.js the
\* GANACHE_CORE case has no test of addresses, and addresses has no default.
getProvider(prog, current, provs, addresses, networkArg, balanceArg, rid, ver) ==
    LET made(p) == [threw |-> FALSE, provider |-> Obj(Len(provs) + 1),
                    providers |-> Append(provs, p)]
        throws == [threw |-> TRUE, provider |-> Undefined, providers |-> provs]
        net == IF networkArg = Omitted THEN current ELSE networkArg
        bal == IF balanceArg = Omitted THEN DefaultBalance ELSE balanceArg
        addr == IF addresses.ref = Omitted /\ prog = "src/getWallet"
                THEN Array(LiteralDefault, <<>>) ELSE addresses
        sel == IF net # "" THEN ToUpperCase(net) ELSE current
    IN  CASE sel = "GANACHE" -> made(JsonRpcProvider(RPC_PORT_GANACHE, rid, ver))
          [] sel = "GANACHE_CORE" ->
                IF prog = "src/getWallet" /\ StrictEqualsEmptyLiteral(addr)
                THEN [threw |-> FALSE, provider |-> Null, providers |-> provs]
                ELSE IF addr.ref = Omitted THEN throws
                ELSE IF addr.elems # <<>> /\ ParseEtherThrows(bal) THEN throws
                ELSE made(Web3Provider(
                        [k \in 1..Len(addr.elems) |->
                            [secretKey |-> BufferFromHex(addr.elems[k]),
                             balance |-> ParseEther(bal)]], rid, ver))
          [] OTHER ->
                IF AlchemyThrows(ToLowerCase(current)) THEN throws
                ELSE made(AlchemyProvider(ToLowerCase(current),
                                          ALCHEMY_API_KEY(current), rid, ver))

\* the locals of a fresh invocation of getBIP44Wallet
NewCall(caller, net, mn, n, bal, ver) ==
    [pc |-> "start", caller |-> caller, i |-> 0, wallet |-> <<>>, balances |-> <<>>,
     account |-> NoAccount, numberOfWallets |-> n, balance |-> bal,
     provider |-> Undefined, ret |-> BipUndefined, keys |-> <<>>,
     startCfg |-> [mnemonic |-> mn, network |-> net, rpcPort |-> RPC_PORT_GANACHE,
                   balance |-> bal, numberOfWallets |-> n],
     startVersion |-> ver, resolves |-> 0]

\* account.privateKey.substring(2) of every account of a result
StrippedKeys(w) ==
    [k \in 1..Len(w) |-> Substring2(PrivateKey(w[k].mnemonic, w[k].index))]

\* the module and process state a segment of getBIP44Wallet reads and writes
Gl == [NETWORK |-> NETWORK, MNEMONIC |-> MNEMONIC, providers |-> providers,
       exited |-> exited, logged |-> logged]

\* catch (err) { console.log(err); process.exit(1); }
ModuleCatch(gl, r) ==
    [gl |-> [gl EXCEPT !.exited = TRUE, !.logged = TRUE],
     run |-> [r EXCEPT !.pc = "failed"]]

\* getBIP44Wallet from the loop test to the next await, or to its return and
\* the rest of the getPrivateKeys / getKeyPairs that awaited it
ModuleLoopHead(prog, gl, r, rid, ver) ==
    IF ~(r.i < r.numberOfWallets)
    THEN [gl |-> gl,
          run |-> [r EXCEPT !.pc = "done",
                            !.ret = Bip(r.wallet, r.balances, rid),
                            !.keys = IF r.caller = "getBIP44Wallet" THEN <<>>
                                     ELSE StrippedKeys(r.wallet)]]
    ELSE IF FromMnemonicThrows(gl.MNEMONIC) THEN ModuleCatch(gl, r)
    ELSE LET key == PrivateKey(gl.MNEMONIC, r.i)
             gp == IF NeedsProvider(r.provider)
                   THEN getProvider(prog, gl.NETWORK, gl.providers,
                                    SeedAddresses(key),
                                    gl.NETWORK, r.balance, rid, ver)
                   ELSE [threw |-> FALSE, provider |-> r.provider,
                         providers |-> gl.providers]
         IN  IF gp.threw THEN ModuleCatch(gl, r)
             ELSE [gl |-> [gl EXCEPT !.providers = gp.providers],
                   run |-> [r EXCEPT !.pc = "await",
                                     !.provider = gp.provider,
                                     !.account = NewWallet(gl.MNEMONIC, r.i, gp.provider),
                                     !.resolves = IF NeedsProvider(r.provider)
                                                  THEN @ + 1 ELSE @]]

\* the continuation of `await account.getBalance()`
ModuleAfterAwait(prog, gl, r, rid, ver, wei) ==
    LET bal == ParseFloatToString(FormatEther(wei))
    IN  ModuleLoopHead(prog, gl,
            [r EXCEPT !.balance = bal,
                      !.wallet = Append(@, r.account),
                      !.balances = Append(@, bal),
                      !.account = NoAccount,
                      !.i = @ + 1], rid, ver)

ModuleWrites(out) ==
    /\ providers' = out.gl.providers
    /\ exited' = out.gl.exited
    /\ logged' = out.gl.logged

\* an exported async function: its assignments to NETWORK and MNEMONIC, then
\* getBIP44Wallet up to its first await
Entry(caller, net, mn, n, bal) ==
    LET ver == cfgVersion + 1
        gl == [Gl EXCEPT !.NETWORK = net, !.MNEMONIC = mn]
        out == ModuleLoopHead(program, gl, NewCall(caller, net, mn, n, bal, ver),
                              Len(calls) + 1, ver)
    IN  /\ program \in ModulePrograms
        /\ ~exited
        /\ cfgVersion < MaxRuns
        /\ cfgVersion' = ver
        /\ NETWORK' = net
        /\ MNEMONIC' = mn
        /\ ModuleWrites(out)
        /\ calls' = Append(calls, out.run)
        /\ UNCHANGED <<program, env, walletVars, lastGetProvider>>

\* getBIP44Wallet(network, numberOfWallets, balance)
GetBIP44Wallet ==
    \E a \in CallArgs, n \in 0..MaxWallets :
        Entry("getBIP44Wallet", ToUpperCase(a[1]), MNEMONIC, n, a[2])

\* getPrivateKeys(undefined, numberOfWallets): network defaults to NETWORK,
\* which is upper-cased here and again in getBIP44Wallet
GetPrivateKeys ==
    \E n \in 0..MaxWallets :
        /\ program = "src/getWallet"
        /\ Entry("getPrivateKeys", ToUpperCase(ToUpperCase(NETWORK)), MNEMONIC, n,
                 DefaultBalance)

\* getKeyPairs(undefined, numberOfWallets, mnemonic)
GetKeyPairs ==
    \E n \in 0..MaxWallets, m \in CallMnemonics :
        /\ program = "src/getWallet"
        /\ Entry("getKeyPairs", ToUpperCase(ToUpperCase(NETWORK)), ToLowerCase(m),
                 n, DefaultBalance)

\* a direct call of the exported getProvider(addresses, network): addresses
\* left out, empty, or holding the key of index 0
GetProvider ==
    \E addresses \in {Array(Omitted, <<>>), Array(CallerArray, <<>>),
                      Array(CallerArray, <<Substring2(PrivateKey(MNEMONIC, 0))>>)},
       net \in {"GANACHE_CORE", "rinkeby"} :
        LET gp == getProvider(program, NETWORK, providers, addresses, net, Omitted,
                              0, cfgVersion + 1)
        IN  /\ program \in ModulePrograms
            /\ ~exited
            /\ cfgVersion < MaxRuns
            /\ net = "rinkeby" => addresses.elems = <<>> /\ addresses.ref = CallerArray
            /\ cfgVersion' = cfgVersion + 1
            /\ providers' = gp.providers
            /\ lastGetProvider' =
                 [called |-> TRUE, addresses |-> addresses, network |-> net,
                  current |-> NETWORK, threw |-> gp.threw, result |-> gp.provider]
            /\ UNCHANGED <<program, env, exited, logged, walletVars, NETWORK,
                           MNEMONIC, calls>>

\* a balance lookup of call k resolves
ModuleBalanceResolves ==
    \E k \in 1..Len(calls) :
        /\ program \in ModulePrograms
        /\ ~exited
        /\ calls[k].pc = "await"
        /\ calls[k].account.provider # 0
        /\ \E wei \in ChainBalances(providers[calls[k].account.provider],
                                    calls[k].account) :
             LET out == ModuleAfterAwait(program, Gl, calls[k], k, cfgVersion, wei)
             IN  /\ ModuleWrites(out)
                 /\ calls' = [calls EXCEPT ![k] = out.run]
        /\ UNCHANGED <<program, env, cfgVersion, walletVars, NETWORK, MNEMONIC,
                       lastGetProvider>>

\* a balance lookup of call k rejects
ModuleBalanceRejects ==
    \E k \in 1..Len(calls) :
        /\ program \in ModulePrograms
        /\ ~exited
        /\ calls[k].pc = "await"
        /\ LET out == ModuleCatch(Gl, calls[k])
           IN  /\ ModuleWrites(out)
               /\ calls' = [calls EXCEPT ![k] = out.run]
        /\ UNCHANGED <<program, env, cfgVersion, walletVars, NETWORK, MNEMONIC,
                       lastGetProvider>>

\* the module once loaded: NETWORK = DEFAULT_NETWORK, MNEMONIC = process.env.MNEMONIC
ModuleInit ==
    /\ program \in ModulePrograms
    /\ NETWORK = DEFAULT_NETWORK
    /\ MNEMONIC = "test junk"
    /\ calls = <<>>
    /\ lastGetProvider = NoCall
    /\ cfgVersion = 0
    /\ providers = <<>>
    /\ exited = FALSE /\ logged = FALSE
    /\ mnemonic = "" /\ network = "" /\ rpcPort = "" /\ balance = ""
    /\ numberOfWallets = 0
    /\ provider = Undefined
    /\ bip44Wallet = BipUndefined
    /\ runs = <<>>
    /\ reads = <<>>

-----------------------------------------------------------------------------
EnvChoices == {{}, {"RINKEBY", "KOVAN"}}

Init ==
    /\ env \in EnvChoices
    /\ WalletInit \/ ModuleInit

Next ==
    \/ SetNetwork
    \/ SetRpcPort
    \/ SetBalance
    \/ SetNumberOfWallets
    \/ WalletBalanceResolves
    \/ WalletBalanceRejects
    \/ WalletPrintKeyPairs
    \/ WalletGetPrivateKeys
    \/ WalletGetKeyPairs
    \/ GetBIP44Wallet
    \/ GetPrivateKeys
    \/ GetKeyPairs
    \/ GetProvider
    \/ ModuleBalanceResolves
    \/ ModuleBalanceRejects

Spec == Init /\ [][Next]_vars

-----------------------------------------------------------------------------
(* Properties *)

\* every invocation of getBIP44Wallet, of the class or of the module
Invocations == {runs[k] : k \in 1..Len(runs)} \cup {calls[k] : k \in 1..Len(calls)}

\* an invocation that ran to its end published r.wallet and r.balances:
\* stored in bip44Wallet (class) or returned (module)
Published == {r \in Invocations : r.pc = "done"}

\* the provider objects constructed by invocations of getBIP44Wallet
ByRuns == {k \in 1..Len(providers) : providers[k].run # 0}

Hosted(net) == ToUpperCase(net) \notin {"GANACHE", "GANACHE_CORE"}

\* C1: every published result has exactly N accounts and N balances, N the
\* walletCount the run was started with, with the account of path index i at
\* position i.
C1_ResultHasStartCount ==
    \A r \in Published :
        /\ Len(r.wallet) = r.startCfg.numberOfWallets
        /\ Len(r.balances) = r.startCfg.numberOfWallets
        /\ \A j \in 1..Len(r.wallet) : r.wallet[j].index = j - 1

\* C2: all accounts of one published result are bound to the same provider.
C2_OneProviderPerResult ==
    \A r \in Published :
        \A i, j \in 1..Len(r.wallet) : r.wallet[i].provider = r.wallet[j].provider

\* the invocation that constructed provider object k
Constructor(k) ==
    IF program = "Web3Wallet" THEN runs[providers[k].run] ELSE calls[providers[k].run]

\* provider object p is what #setProvider builds from Configuration cfg
BuiltFrom(p, cfg) ==
    CASE ToUpperCase(cfg.network) = "GANACHE" ->
            p.kind = "JsonRpcProvider" /\ p.url = cfg.rpcPort
      [] ToUpperCase(cfg.network) = "GANACHE_CORE" ->
            /\ p.kind = "Web3Provider"
            /\ \A k \in 1..Len(p.accounts) : p.accounts[k].balance = ParseEther(cfg.balance)
      [] OTHER ->
            p.kind = "AlchemyProvider" /\ p.network = ToLowerCase(cfg.network)

C4_FailureAbortsRun ==
    /\ \A k \in 1..Len(runs) :
          runs[k].pc = "failed" => exited /\ logged /\ bip44Wallet.by # k
    /\ \A k \in 1..Len(calls) :
          calls[k].pc = "failed" => exited /\ logged /\ ~calls[k].ret.defined
    /\ bip44Wallet.defined =>
          /\ runs[bip44Wallet.by].pc = "done"
          /\ bip44Wallet.wallet = runs[bip44Wallet.by].wallet
          /\ bip44Wallet.balances = runs[bip44Wallet.by].balances
    /\ exited => \E r \in Invocations : r.pc = "failed"

\* C4 witness: a run failed at an index k >= 1, with accounts already derived
C4_Witness ==
    \E r \in Invocations : r.pc = "failed" /\ Len(r.wallet) >= 1 /\ exited

C6_EmptySeedsNoProvider ==
    (/\ lastGetProvider.called
     /\ ToUpperCase(lastGetProvider.network) = "GANACHE_CORE"
     /\ lastGetProvider.addresses.elems = <<>>)
    => /\ ~lastGetProvider.threw
       /\ lastGetProvider.result = Null
       /\ \A k \in 1..Len(providers) :
             providers[k].kind = "Web3Provider" => providers[k].accounts # <<>>

C9_RequestedNetworkUsed ==
    /\ (/\ lastGetProvider.called
        /\ Hosted(lastGetProvider.network)
        /\ lastGetProvider.result.tag = "object")
       => /\ providers[lastGetProvider.result.id].network =
                ToLowerCase(lastGetProvider.network)
          /\ providers[lastGetProvider.result.id].key =
                EnvKey(ToUpperCase(lastGetProvider.network))
    /\ \A k \in ByRuns :
          providers[k].kind = "AlchemyProvider" =>
              /\ providers[k].network = ToLowerCase(Constructor(k).startCfg.network)
              /\ providers[k].key = EnvKey(ToUpperCase(Constructor(k).startCfg.network))

\* C10: once every started run of a Web3Wallet has completed, bip44Wallet
\* holds the result of the most recently started run.
C10_LastStartedRunWins ==
    (/\ program = "Web3Wallet"
     /\ ~exited
     /\ \A k \in 1..Len(runs) : runs[k].pc = "done")
    => bip44Wallet.by = Len(runs)

\* C11: whenever printKeyPairs, getPrivateKeys or getKeyPairs is called on a
\* Web3Wallet (any time after the constructor returned), bip44Wallet holds a
\* materialized [accounts, balances]: no read observes an undefined result.
C11_ReadersSeeResult ==
    \A k \in 1..Len(reads) : ~reads[k].threw

=============================================================================
